---- MODULE Spec2Model ----
(***************************************************************************)
(* Binary genetic algorithm for antenna placement.                         *)
(*   genetic_algorithm.py : Individual, GeneticAlgorithm                   *)
(*   problem_domain.py    : Problem (decode, calculate_fitness)            *)
(*   config.py            : the module-level parameters read by both       *)
(*                                                                         *)
(* Gene lists are Python lists, i.e. mutable objects with identity.  They  *)
(* live in `heap` (a sequence of buffers); an Individual holds the index   *)
(* of its buffer, so that two Individuals sharing one list are visible.    *)
(***************************************************************************)
EXTENDS Integers, Sequences, FiniteSets, TLC

VARIABLES
    cfg,                  \* config.py: the GA parameters of this run
    problem,              \* the Problem instance (fields of Problem.__init__)
    heap,                 \* gene buffers (Python lists), indexed by identity
    population,           \* GeneticAlgorithm.population
    next_generation,      \* local of _breed_next_generation
    best_overall,         \* local of run
    stagnant_generations, \* local of run
    generations_run,      \* GeneticAlgorithm.generations_run
    hist,                 \* history of the run, kept for the properties (see NoHistory)
    pc,                   \* position inside run / which Problem method was called
    error,                \* exception that ended the call, or "none"
    call,                 \* argument of a direct Problem.decode / calculate_fitness call
    result                \* value returned by that call

vars == << cfg, problem, heap, population, next_generation, best_overall,
           stagnant_generations, generations_run, hist,
           pc, error, call, result >>

gaVars == << heap, population, next_generation, best_overall,
             stagnant_generations, generations_run, hist >>

(***************************************************************************)
(* Bounds of the model                                                     *)
(***************************************************************************)
MaxPopulation == 2      \* POPULATION_SIZE ranges over 0..MaxPopulation
MaxGenerationsBound == 3 \* MAX_GENERATIONS ranges over 0..MaxGenerationsBound
MaxStagnantBound == 2   \* MAX_STAGNANT_GENERATIONS ranges over 0..MaxStagnantBound
MaxLen == 6             \* chromosome_length of a directly called Problem is at most MaxLen
MaxMap == 2             \* map_width, map_height range over 1..MaxMap
MaxParentLen == 5       \* parents of a directly called _crossover have 0..MaxParentLen genes

(***************************************************************************)
(* Generic helpers                                                         *)
(***************************************************************************)
Min(a, b) == IF a <= b THEN a ELSE b
Max(a, b) == IF a >= b THEN a ELSE b

\* All sequences over S of length n.
SeqsOfLen(S, n) == [1..n -> S]

\* Python's s[:n] (n may exceed len(s) or be negative).
SliceTo(s, n) ==
    LET stop == IF n < 0 THEN Max(Len(s) + n, 0) ELSE Min(n, Len(s))
    IN  SubSeq(s, 1, stop)

\* Python's s[a:b] for 0 <= a, 0 <= b (0-based, half open).
Slice(s, a, b) == SubSeq(s, Min(a, Len(s)) + 1, Min(b, Len(s)))

Bits == {0, 1}

(***************************************************************************)
(* random.Random: random() returns a float in [0, 1).  Rates and draws are *)
(* counted in halves: a draw is 0 (0.0) or 1 (0.5); a rate r stands for    *)
(* r/2, so the rates -1..3 are -0.5, 0.0, 0.5, 1.0, 1.5.                   *)
(***************************************************************************)
RandomDraws == {0, 1}
Rates == -1 .. 3
ValidRates == 0 .. 2

(***************************************************************************)
(* problem_domain.py                                                       *)
(* A Problem is a record                                                   *)
(*   [clients, num_antennas, bits_per_coord, map_width, map_height,        *)
(*    coverage_radius]                                                     *)
(* with clients a sequence of <<x, y>>.  Coordinates and the radius are    *)
(* integers here (the code holds them as floats).                          *)
(* A call that may raise returns [err |-> "none", val |-> v] or            *)
(* [err |-> <exception>].                                                  *)
(***************************************************************************)
Ok(v) == [err |-> "none", val |-> v]
Raise(e) == [err |-> e]

\* Problem.__init__: self.chromosome_length
ChromosomeLength(p) == p.num_antennas * p.bits_per_coord * 2

\* Problem.__init__: self._radius_sq
RadiusSq(p) == p.coverage_radius * p.coverage_radius

\* str(bit) of one gene
DigitChar(b) == IF b = 0 THEN "0" ELSE "1"

\* "".join(map(str, bits)): the text handed to int(_, 2)
JoinDigits(bits) == [k \in 1..Len(bits) |-> DigitChar(bits[k])]

\* int(text, 2) on a text of binary digits: leftmost digit most significant;
\* the empty text is not a literal.
RECURSIVE ParseBase2Acc(_, _, _)
ParseBase2Acc(text, k, acc) ==
    IF k > Len(text) THEN acc
    ELSE ParseBase2Acc(text, k + 1, 2 * acc + (IF text[k] = "1" THEN 1 ELSE 0))

ParseBase2(text) ==
    IF Len(text) = 0 THEN Raise("ValueError") ELSE Ok(ParseBase2Acc(text, 1, 0))

\* _bits_to_int
BitsToInt(bits) == ParseBase2(JoinDigits(bits))

\* DecodeAntenna without the min() against the map bounds
DecodeAntennaUnclamped(p, genes, i) ==
    LET start == i * p.bits_per_coord * 2
        x_val == BitsToInt(Slice(genes, start, start + p.bits_per_coord))
        y_val == BitsToInt(Slice(genes, start + p.bits_per_coord, start + 2 * p.bits_per_coord))
    IN  IF x_val.err # "none" THEN x_val
        ELSE IF y_val.err # "none" THEN y_val
        ELSE Ok(<< x_val.val, y_val.val >>)

\* Problem.decode, the body of the loop for antenna i (0-based)
DecodeAntenna(p, genes, i) ==
    LET genes_per_antenna == p.bits_per_coord * 2
        start == i * genes_per_antenna
        mid   == start + p.bits_per_coord
        end   == start + genes_per_antenna
        x_val == BitsToInt(Slice(genes, start, mid))
        y_val == BitsToInt(Slice(genes, mid, end))
    IN  IF x_val.err # "none" THEN x_val
        ELSE IF y_val.err # "none" THEN y_val
        ELSE Ok(<< Min(x_val.val, p.map_width), Min(y_val.val, p.map_height) >>)

\* Problem.decode
Decode(p, genes) ==
    IF Len(genes) # ChromosomeLength(p) THEN Raise("ValueError")
    ELSE LET each == [k \in 1..p.num_antennas |-> DecodeAntenna(p, genes, k - 1)]
         IN  IF \E k \in 1..p.num_antennas : each[k].err # "none"
             THEN Raise("ValueError")
             ELSE Ok([k \in 1..p.num_antennas |-> each[k].val])

\* distances_sq[c][a] of calculate_fitness
DistanceSq(client, antenna) ==
    (client[1] - antenna[1]) * (client[1] - antenna[1])
  + (client[2] - antenna[2]) * (client[2] - antenna[2])

\* a variant of calculate_fitness whose radius test is strict
CalculateFitnessStrict(p, genes) ==
    IF Len(p.clients) = 0 THEN Ok(0)
    ELSE LET decoded == Decode(p, genes)
         IN  IF decoded.err # "none" THEN decoded
             ELSE IF Len(decoded.val) = 0 THEN Ok(0)
             ELSE LET covered == { c \in 1..Len(p.clients) :
                                     \E a \in 1..Len(decoded.val) :
                                        DistanceSq(p.clients[c], decoded.val[a]) < RadiusSq(p) }
                  IN  Ok(Cardinality(covered))

\* Problem.calculate_fitness
CalculateFitness(p, genes) ==
    IF Len(p.clients) = 0 THEN Ok(0)
    ELSE LET decoded == Decode(p, genes)
         IN  IF decoded.err # "none" THEN decoded
             ELSE IF Len(decoded.val) = 0 THEN Ok(0)
             ELSE LET covered == { c \in 1..Len(p.clients) :
                                     \E a \in 1..Len(decoded.val) :
                                        DistanceSq(p.clients[c], decoded.val[a]) <= RadiusSq(p) }
                  IN  Ok(Cardinality(covered))

(***************************************************************************)
(* genetic_algorithm.py                                                    *)
(* An Individual is [genes |-> <buffer index in heap>, fitness |-> <int>]. *)
(***************************************************************************)
\* Individual(genes): the dataclass constructor, fitness defaulting to -1
Individual(buf) == [genes |-> buf, fitness |-> -1]

\* best_overall before run has assigned it
NoIndividual == [genes |-> 0, fitness |-> -1]

\* a clone that copies the gene list into a new buffer
DeepClone(ind, h) ==
    [ind |-> [genes |-> Len(h) + 1, fitness |-> ind.fitness], heap |-> Append(h, h[ind.genes])]

\* Individual.clone: dataclasses.replace(self) builds a new Individual from the
\* fields of self; the genes field is the same list object.
Clone(ind, h) == [ind |-> [genes |-> ind.genes, fitness |-> ind.fitness], heap |-> h]

\* GeneticAlgorithm._evaluate_population
EvaluatePopulation(pop, h, p) ==
    LET fit == [k \in 1..Len(pop) |-> CalculateFitness(p, h[pop[k].genes])]
    IN  IF \E k \in 1..Len(pop) : fit[k].err # "none"
        THEN Raise("ValueError")
        ELSE Ok([k \in 1..Len(pop) |-> [pop[k] EXCEPT !.fitness = fit[k].val]])

\* max(pop, key=fitness): index of the first item whose key no later item beats,
\* scanning left to right and replacing the candidate only on a greater key.
RECURSIVE MaxScan(_, _, _)
MaxScan(pop, k, cand) ==
    IF k > Len(pop) THEN cand
    ELSE MaxScan(pop, k + 1, IF pop[k].fitness > pop[cand].fitness THEN k ELSE cand)

MaxByFitness(pop) ==
    IF Len(pop) = 0 THEN Raise("ValueError") ELSE Ok(pop[MaxScan(pop, 2, 1)])

\* an insertion that puts an item before the items of equal key
RECURSIVE InsertDescUnstable(_, _)
InsertDescUnstable(sorted, ind) ==
    IF Len(sorted) = 0 THEN << ind >>
    ELSE IF Head(sorted).fitness > ind.fitness
         THEN << Head(sorted) >> \o InsertDescUnstable(Tail(sorted), ind)
         ELSE << ind >> \o sorted

\* sorted(pop, key=fitness, reverse=True): a stable sort, built by inserting each
\* item after every item already placed whose key is not smaller.
RECURSIVE InsertDesc(_, _)
InsertDesc(sorted, ind) ==
    IF Len(sorted) = 0 THEN << ind >>
    ELSE IF Head(sorted).fitness >= ind.fitness
         THEN << Head(sorted) >> \o InsertDesc(Tail(sorted), ind)
         ELSE << ind >> \o sorted

RECURSIVE SortedDescAcc(_, _, _)
SortedDescAcc(pop, k, acc) ==
    IF k > Len(pop) THEN acc ELSE SortedDescAcc(pop, k + 1, InsertDesc(acc, pop[k]))

SortedByFitnessDesc(pop) == SortedDescAcc(pop, 1, << >>)

\* [ind.clone() for ind in elite[:ELITISM_COUNT]]
RECURSIVE CloneAll(_, _, _, _)
CloneAll(inds, k, acc, h) ==
    IF k > Len(inds) THEN [inds |-> acc, heap |-> h]
    ELSE LET c == Clone(inds[k], h)
         IN  CloneAll(inds, k + 1, Append(acc, c.ind), c.heap)

CloneElite(pop, h, c) ==
    CloneAll(SliceTo(SortedByFitnessDesc(pop), c.ELITISM_COUNT), 1, << >>, h)

\* weights of _roulette_selection
RouletteWeights(pop) == [k \in 1..Len(pop) |-> Max(pop[k].fitness, 0)]

RECURSIVE SumTo(_, _)
SumTo(w, k) == IF k = 0 THEN 0 ELSE w[k] + SumTo(w, k - 1)

\* random.choices(pop, weights, k=1)[0]: raises when the weights total 0;
\* otherwise bisects the cumulative weights at random() * total, whose integer
\* part is r in 0 .. total-1.
ChoicesIndex(w, r) == CHOOSE k \in 1..Len(w) : SumTo(w, k) > r /\ SumTo(w, k - 1) <= r

\* GeneticAlgorithm._roulette_selection: the individuals it may return
RouletteSelection(pop) ==
    LET w == RouletteWeights(pop)
        total == SumTo(w, Len(w))
    IN  IF total <= 0 THEN Raise("ValueError")
        ELSE Ok({ pop[ChoicesIndex(w, r)] : r \in 0..(total - 1) })

\* sorted(rng.sample(range(1, length), 2)): the cut pairs it may return
CutPairs(length) == { c \in (1..(length - 1)) \X (1..(length - 1)) : c[1] < c[2] }

\* a crossover that exchanges everything from the first cut point on
CrossoverOnePoint(parent_a, parent_b, cut) ==
    LET length == Len(parent_a)
    IN  IF length < 3 THEN << parent_a, parent_b >>
        ELSE LET p1 == cut[1]
             IN  << Slice(parent_a, 0, p1) \o Slice(parent_b, p1, length),
                    Slice(parent_b, 0, p1) \o Slice(parent_a, p1, length) >>

\* GeneticAlgorithm._crossover with the cut pair drawn
Crossover(parent_a, parent_b, cut) ==
    LET length == Len(parent_a)
    IN  IF length < 3 THEN << parent_a, parent_b >>
        ELSE LET p1 == cut[1]
                 p2 == cut[2]
             IN  << Slice(parent_a, 0, p1) \o Slice(parent_b, p1, p2) \o Slice(parent_a, p2, length),
                    Slice(parent_b, 0, p1) \o Slice(parent_a, p1, p2) \o Slice(parent_b, p2, length) >>

\* GeneticAlgorithm._mutate: draws[i] is the value of random() for gene i
Mutate(genes, draws, c) ==
    [k \in 1..Len(genes) |-> IF draws[k] < c.MUTATION_RATE THEN 1 - genes[k] ELSE genes[k]]

(***************************************************************************)
(* Buffers no Individual refers to any more are freed, and the buffers     *)
(* left are numbered in the order best_overall, population,                *)
(* next_generation first reach them (list identity is not observable       *)
(* beyond equality).                                                       *)
(***************************************************************************)
RECURSIVE LiveOrderAcc(_, _, _)
LiveOrderAcc(inds, k, acc) ==
    IF k > Len(inds) THEN acc
    ELSE LET b == inds[k].genes
         IN  LiveOrderAcc(inds, k + 1,
                 IF b = 0 \/ (\E j \in 1..Len(acc) : acc[j] = b) THEN acc ELSE Append(acc, b))

LiveOrder(best, pop, nxt) == LiveOrderAcc(<< best >> \o pop \o nxt, 1, << >>)

NewIndex(order, b) == IF b = 0 THEN 0 ELSE CHOOSE j \in 1..Len(order) : order[j] = b

Renumber(order, inds) ==
    [k \in 1..Len(inds) |-> [inds[k] EXCEPT !.genes = NewIndex(order, inds[k].genes)]]

Compact(h, best, pop, nxt) ==
    LET order == LiveOrder(best, pop, nxt)
    IN  [ heap |-> [k \in 1..Len(order) |-> h[order[k]]],
          best |-> [best EXCEPT !.genes = NewIndex(order, best.genes)],
          population |-> Renumber(order, pop),
          next_generation |-> Renumber(order, nxt) ]

\* child gene lists that, without crossover, are the parents' own lists (no [:])
NewChildrenAliased(h, parent1, parent2, u, cut, c) ==
    IF u < c.CROSSOVER_RATE
    THEN LET genes == Crossover(h[parent1.genes], h[parent2.genes], cut)
         IN  [ heap |-> h \o << genes[1], genes[2] >>, a |-> Len(h) + 1, b |-> Len(h) + 2 ]
    ELSE [ heap |-> h, a |-> parent1.genes, b |-> parent2.genes ]

\* Lines 133-136 of _breed_next_generation: the two child gene lists, each a
\* new list (a crossover result or a parent[:] copy).  u is the value of random().
NewChildren(h, parent1, parent2, u, cut, c) ==
    LET genes == IF u < c.CROSSOVER_RATE
                 THEN Crossover(h[parent1.genes], h[parent2.genes], cut)
                 ELSE << h[parent1.genes], h[parent2.genes] >>
    IN  [ heap |-> h \o << genes[1], genes[2] >>, a |-> Len(h) + 1, b |-> Len(h) + 2 ]

\* self._mutate(genes): writes the list in place
MutateInPlace(h, buf, draws, c) == [h EXCEPT ![buf] = Mutate(h[buf], draws, c)]

\* both children appended, room or not
AppendBothChildren(nxt, a, b, c) == Append(Append(nxt, Individual(a)), Individual(b))

\* Lines 141-143 of _breed_next_generation
AppendChildren(nxt, a, b, c) ==
    LET with_a == Append(nxt, Individual(a))
    IN  IF Len(with_a) < c.POPULATION_SIZE THEN Append(with_a, Individual(b)) ELSE with_a

\* best tracking that also replaces the best on equal fitness
TrackBestOnTie(current_best, best, stagnant, h) ==
    IF current_best.fitness >= best.fitness
    THEN [best |-> [genes |-> current_best.genes, fitness |-> current_best.fitness],
          stagnant |-> 0, heap |-> h]
    ELSE [best |-> best, stagnant |-> stagnant + 1, heap |-> h]

\* Lines 93-98 of run: best tracking after a generation was evaluated
TrackBest(current_best, best, stagnant, h) ==
    IF current_best.fitness > best.fitness
    THEN LET c == Clone(current_best, h)
         IN  [best |-> c.ind, stagnant |-> 0, heap |-> c.heap]
    ELSE [best |-> best, stagnant |-> stagnant + 1, heap |-> h]

\* a stagnation test that lets one more generation through
StagnationStopLate(stagnant, c) == stagnant > c.MAX_STAGNANT_GENERATIONS

\* Line 103 of run: the stagnation test that breaks the loop
StagnationStop(stagnant, c) == stagnant >= c.MAX_STAGNANT_GENERATIONS

\* _breed_next_generation, line 145: next_generation[:POPULATION_SIZE]
Truncate(nxt, c) == SliceTo(nxt, c.POPULATION_SIZE)

(***************************************************************************)
(* History of a run, recorded beside the code's own variables:             *)
(*   max      greatest fitness any evaluated individual has had            *)
(*   genes    the genes of the earliest individual that had it             *)
(*   at       the generation in which max last rose (0: the initial one)   *)
(*   executed the number of generations bred, evaluated and tracked        *)
(***************************************************************************)
NoHistory == [max |-> -1, genes |-> << >>, at |-> 0, executed |-> 0]

\* greatest fitness in an evaluated population (-1 when it is empty)
RECURSIVE PopMaxFitness(_, _)
PopMaxFitness(pop, k) ==
    IF k = 0 THEN -1 ELSE Max(pop[k].fitness, PopMaxFitness(pop, k - 1))

\* the history after the population pop (with buffers h) was evaluated as
\* generation gen
Record(old, pop, h, gen) ==
    LET top == PopMaxFitness(pop, Len(pop))
        who == CHOOSE k \in 1..Len(pop) :
                  /\ pop[k].fitness = top
                  /\ \A j \in 1..(k - 1) : pop[j].fitness < top
    IN  IF top > old.max
        THEN [max |-> top, genes |-> h[pop[who].genes], at |-> gen, executed |-> gen]
        ELSE [old EXCEPT !.executed = gen]

(***************************************************************************)
(* Configurations and problems                                             *)
(***************************************************************************)
Config(P, G, E, CR, MR, S) ==
    [ POPULATION_SIZE |-> P, MAX_GENERATIONS |-> G, ELITISM_COUNT |-> E,
      CROSSOVER_RATE |-> CR, MUTATION_RATE |-> MR, MAX_STAGNANT_GENERATIONS |-> S ]

\* Every size configuration within the bounds, the malformed ones included
\* (POPULATION_SIZE = 0, ELITISM_COUNT = POPULATION_SIZE + 1), at rates 1/2.
SizeConfigs ==
    { Config(P, G, E, 1, 1, S) :
        P \in 0..MaxPopulation, G \in 0..MaxGenerationsBound,
        E \in 0..(MaxPopulation + 1), S \in 0..MaxStagnantBound }

\* Every pair of rates, the malformed ones included, at the largest sizes.
RateConfigs ==
    { Config(MaxPopulation, MaxGenerationsBound, 1, CR, MR, MaxStagnantBound) :
        CR \in Rates, MR \in Rates }

Configs == { c \in SizeConfigs : c.ELITISM_COUNT <= c.POPULATION_SIZE + 1 } \cup RateConfigs

ValidConfig(c) ==
    /\ c.POPULATION_SIZE > 0
    /\ 0 <= c.ELITISM_COUNT /\ c.ELITISM_COUNT <= c.POPULATION_SIZE
    /\ c.CROSSOVER_RATE \in ValidRates
    /\ c.MUTATION_RATE \in ValidRates

Point(x, y) == << x, y >>

\* The problem the engine runs on: one antenna, one bit per coordinate, so the
\* antenna sits on a corner of the unit square; fitness is 2 at (1,1), 1 at
\* (1,0) and at (0,1), 0 at (0,0).
GAProblem ==
    [ clients |-> << Point(2, 1), Point(1, 2), Point(2, 0), Point(0, 2) >>,
      num_antennas |-> 1, bits_per_coord |-> 1,
      map_width |-> 3, map_height |-> 3, coverage_radius |-> 1 ]

NoCall == [op |-> "none", genes |-> << >>]
NoResult == [err |-> "none", val |-> << >>]

(***************************************************************************)
(* The engine: GeneticAlgorithm.__init__ leaves an empty population and    *)
(* generations_run = 0; run is cut at its loops.                           *)
(***************************************************************************)
Init ==
    /\ cfg \in Configs
    /\ problem = GAProblem
    /\ heap = << >>
    /\ population = << >>
    /\ next_generation = << >>
    /\ best_overall = NoIndividual
    /\ stagnant_generations = 0
    /\ generations_run = 0
    /\ hist = NoHistory
    /\ pc = "start"
    /\ error = "none"
    /\ call = NoCall
    /\ result = NoResult

Fail(e) ==
    /\ pc' = "failed"
    /\ error' = e

\* run, lines 73-81: _initialize_population, _evaluate_population, the first best
StartRun ==
    /\ pc = "start"
    /\ \E genes \in SeqsOfLen(SeqsOfLen(Bits, ChromosomeLength(problem)),
                              Max(cfg.POPULATION_SIZE, 0)) :
         LET h0   == genes
             pop0 == [k \in 1..Len(genes) |-> Individual(k)]
             ev   == EvaluatePopulation(pop0, h0, problem)
         IN  IF ev.err # "none"
             THEN /\ Fail(ev.err)
                  /\ heap' = h0 /\ population' = pop0
                  /\ UNCHANGED << best_overall, stagnant_generations, hist >>
             ELSE LET first == MaxByFitness(ev.val)
                  IN  IF first.err # "none"
                      THEN /\ Fail(first.err)
                           /\ heap' = h0 /\ population' = ev.val
                           /\ UNCHANGED << best_overall, stagnant_generations, hist >>
                      ELSE LET c == Clone(first.val, h0)
                               m == Compact(c.heap, c.ind, ev.val, << >>)
                           IN  /\ heap' = m.heap
                               /\ population' = m.population
                               /\ best_overall' = m.best
                               /\ stagnant_generations' = 0
                               /\ hist' = Record(hist, ev.val, h0, 0)
                               /\ pc' = "loop"
                               /\ error' = "none"
    /\ UNCHANGED << cfg, problem, next_generation, generations_run, call, result >>

\* run, lines 83-84 and _breed_next_generation, lines 125-126: enter generation i,
\* sort, clone the elite
BeginGeneration ==
    /\ pc = "loop"
    /\ generations_run < cfg.MAX_GENERATIONS
    /\ generations_run' = generations_run + 1
    /\ LET e == CloneElite(population, heap, cfg)
           m == Compact(e.heap, best_overall, population, e.inds)
       IN  /\ heap' = m.heap
           /\ best_overall' = m.best
           /\ population' = m.population
           /\ next_generation' = m.next_generation
    /\ pc' = "breed"
    /\ UNCHANGED << cfg, problem, stagnant_generations, hist, error, call, result >>

\* _breed_next_generation, lines 133-143: what one turn of the while loop makes
\* of the two selected parents, for the values u, cut, draws_a, draws_b that the
\* random source returns: the heap and next_generation after the turn
BreedTurn(h, nxt, parent1, parent2, u, cut, draws_a, draws_b, c) ==
    LET ch == NewChildren(h, parent1, parent2, u, cut, c)
        h1 == MutateInPlace(ch.heap, ch.a, draws_a, c)
        h2 == MutateInPlace(h1, ch.b, draws_b, c)
    IN  [heap |-> h2, next_generation |-> AppendChildren(nxt, ch.a, ch.b, c)]

\* the cut pairs _crossover may draw when random() returned u (none is drawn
\* when there is no crossover or the chromosome is shorter than 3)
CutsDrawn(u, length, c) ==
    IF length < 3 \/ ~(u < c.CROSSOVER_RATE) THEN { << 0, 0 >> } ELSE CutPairs(length)

\* every outcome of one turn, over the parents _roulette_selection may return
\* and every value the random source may return
BreedTurns(h, nxt, parents, length, c) ==
    UNION { { BreedTurn(h, nxt, parent1, parent2, u, cut, draws_a, draws_b, c) :
                parent1 \in parents, parent2 \in parents,
                cut \in CutsDrawn(u, length, c),
                draws_a \in SeqsOfLen(RandomDraws, length),
                draws_b \in SeqsOfLen(RandomDraws, length) } :
            u \in RandomDraws }

\* _breed_next_generation, lines 129-143: one turn of the while loop
BreedPair ==
    /\ pc = "breed"
    /\ Len(next_generation) < cfg.POPULATION_SIZE
    /\ LET sel == RouletteSelection(population)
       IN  IF sel.err # "none"
           THEN /\ Fail(sel.err)
                /\ UNCHANGED << heap, best_overall, population, next_generation >>
           ELSE \E turn \in BreedTurns(heap, next_generation, sel.val,
                                       ChromosomeLength(problem), cfg) :
                    LET m == Compact(turn.heap, best_overall, population,
                                     turn.next_generation)
                    IN  /\ heap' = m.heap
                        /\ best_overall' = m.best
                        /\ population' = m.population
                        /\ next_generation' = m.next_generation
                        /\ UNCHANGED << pc, error >>
    /\ UNCHANGED << cfg, problem, stagnant_generations, generations_run, hist,
                    call, result >>

\* _breed_next_generation, line 145, and run, lines 87-104: the new population is
\* installed and evaluated, the best is tracked, the stagnation test is made
EndGeneration ==
    /\ pc = "breed"
    /\ ~(Len(next_generation) < cfg.POPULATION_SIZE)
    /\ LET pop1 == Truncate(next_generation, cfg)
           ev   == EvaluatePopulation(pop1, heap, problem)
       IN  IF ev.err # "none"
           THEN /\ Fail(ev.err)
                /\ population' = pop1
                /\ UNCHANGED << heap, best_overall, stagnant_generations, hist,
                                next_generation >>
           ELSE LET cur == MaxByFitness(ev.val)
                IN  IF cur.err # "none"
                    THEN /\ Fail(cur.err)
                         /\ population' = ev.val
                         /\ UNCHANGED << heap, best_overall, stagnant_generations, hist,
                                         next_generation >>
                    ELSE LET t == TrackBest(cur.val, best_overall, stagnant_generations, heap)
                             m == Compact(t.heap, t.best, ev.val, << >>)
                         IN  /\ heap' = m.heap
                             /\ best_overall' = m.best
                             /\ population' = m.population
                             /\ next_generation' = << >>
                             /\ stagnant_generations' = t.stagnant
                             /\ hist' = Record(hist, ev.val, heap, generations_run)
                             /\ pc' = IF StagnationStop(t.stagnant, cfg) THEN "done" ELSE "loop"
                             /\ error' = "none"
    /\ UNCHANGED << cfg, problem, generations_run, call, result >>

\* run, lines 83 and 106-107: range(1, MAX_GENERATIONS + 1) is exhausted
ExhaustGenerations ==
    /\ pc = "loop"
    /\ ~(generations_run < cfg.MAX_GENERATIONS)
    /\ pc' = "done"
    /\ UNCHANGED << cfg, problem, gaVars, error, call, result >>

Next ==
    \/ StartRun
    \/ BeginGeneration
    \/ BreedPair
    \/ EndGeneration
    \/ ExhaustGenerations

Spec == Init /\ [][Next]_vars

(***************************************************************************)
(* Problem called directly: any Problem within the bounds, decode or       *)
(* calculate_fitness applied to any bit sequence of a length up to one     *)
(* more than chromosome_length.                                            *)
(***************************************************************************)
\* Client sets with their coverage radius (the empty set included).
Scenes ==
    { [clients |-> << >>, coverage_radius |-> 1],
      [clients |-> << Point(1, 1) >>, coverage_radius |-> 1],
      [clients |-> << Point(0, 0), Point(2, 1), Point(0, 0), Point(0, 3) >>,
       coverage_radius |-> 2] }

Shapes == { nb \in (0..MaxLen) \X (0..MaxLen) : 2 * nb[1] * nb[2] <= MaxLen }

Problems ==
    { [ clients |-> sc.clients, num_antennas |-> nb[1], bits_per_coord |-> nb[2],
        map_width |-> w, map_height |-> h, coverage_radius |-> sc.coverage_radius ] :
        sc \in Scenes, nb \in Shapes, w \in 1..MaxMap, h \in 1..MaxMap }

BitSeqsUpTo(n) == UNION { SeqsOfLen(Bits, k) : k \in 0..n }

InitProblem ==
    /\ cfg = Config(1, 0, 0, 1, 1, 0)
    /\ problem \in Problems
    /\ heap = << >>
    /\ population = << >>
    /\ next_generation = << >>
    /\ best_overall = NoIndividual
    /\ stagnant_generations = 0
    /\ generations_run = 0
    /\ hist = NoHistory
    /\ pc = "idle"
    /\ error = "none"
    /\ call = NoCall
    /\ result = NoResult

Return(r) ==
    /\ result' = (IF r.err = "none" THEN r ELSE NoResult)
    /\ error' = r.err
    /\ pc' = (IF r.err = "none" THEN "returned" ELSE "raised")

\* problem.decode(genes)
CallDecode ==
    /\ pc = "idle"
    /\ \E genes \in BitSeqsUpTo(ChromosomeLength(problem) + 1) :
         /\ call' = [op |-> "decode", genes |-> genes]
         /\ Return(Decode(problem, genes))
    /\ UNCHANGED << cfg, problem, gaVars >>

\* problem.calculate_fitness(genes)
CallCalculateFitness ==
    /\ pc = "idle"
    /\ \E genes \in BitSeqsUpTo(ChromosomeLength(problem) + 1) :
         /\ call' = [op |-> "calculate_fitness", genes |-> genes]
         /\ Return(CalculateFitness(problem, genes))
    /\ UNCHANGED << cfg, problem, gaVars >>

NextProblem ==
    \/ CallDecode
    \/ CallCalculateFitness

SpecProblem == InitProblem /\ [][NextProblem]_vars

(***************************************************************************)
(* _crossover called directly: two parent lists of one length in the heap  *)
(* (buffers 1 and 2); either argument may be either list, so the two       *)
(* arguments may be one list object, as when _roulette_selection returns   *)
(* the same individual twice.  The children are new lists.                 *)
(***************************************************************************)
ParentPairs ==
    UNION { SeqsOfLen(Bits, n) \X SeqsOfLen(Bits, n) : n \in 0..MaxParentLen }

InitCrossover ==
    /\ cfg = Config(1, 0, 0, 1, 1, 0)
    /\ problem = GAProblem
    /\ \E pp \in ParentPairs : heap = << pp[1], pp[2] >>
    /\ population = << >>
    /\ next_generation = << >>
    /\ best_overall = NoIndividual
    /\ stagnant_generations = 0
    /\ generations_run = 0
    /\ hist = NoHistory
    /\ pc = "ready"
    /\ error = "none"
    /\ call = NoCall
    /\ result = NoResult

\* self._crossover(parent_a, parent_b)
CallCrossover ==
    /\ pc = "ready"
    /\ \E a \in 1..2, b \in 1..2 :
         \E cut \in (IF Len(heap[a]) < 3 THEN { << 0, 0 >> } ELSE CutPairs(Len(heap[a]))) :
            LET children == Crossover(heap[a], heap[b], cut)
            IN  /\ call' = [op |-> "_crossover", parent_a |-> a, parent_b |-> b, cut |-> cut]
                /\ heap' = heap \o << children[1], children[2] >>
                /\ result' = Ok(<< Len(heap) + 1, Len(heap) + 2 >>)
    /\ pc' = "crossed"
    /\ UNCHANGED << cfg, problem, population, next_generation, best_overall,
                    stagnant_generations, generations_run, hist, error >>

NextCrossover == CallCrossover

SpecCrossover == InitCrossover /\ [][NextCrossover]_vars

(***************************************************************************)
(* Properties                                                              *)
(***************************************************************************)
\* Position (1-based) of population member j when the population is ordered by
\* fitness, greatest first, equal fitness in population order.
RankOf(pop, j) ==
    Cardinality({ i \in 1..Len(pop) :
                    \/ pop[i].fitness > pop[j].fitness
                    \/ (pop[i].fitness = pop[j].fitness /\ i < j) }) + 1

Ranked(pop, k) == pop[CHOOSE j \in 1..Len(pop) : RankOf(pop, j) = k]

SizesValid(c) == 0 <= c.ELITISM_COUNT /\ c.ELITISM_COUNT <= c.POPULATION_SIZE

AllWeightsZero(pop) == Len(pop) > 0 /\ \A k \in 1..Len(pop) : pop[k].fitness <= 0

Terminated == pc \in {"done", "failed"}

\* C1: with 0 <= ELITISM_COUNT <= POPULATION_SIZE, once the population has been
\* initialised it holds exactly POPULATION_SIZE individuals in every state of run
\* (after every generation too), and the generation being built never exceeds
\* POPULATION_SIZE: when one slot is left the pair contributes child A only.
C1_PopulationSize ==
    (pc # "start" /\ SizesValid(cfg)) =>
        /\ Len(population) = cfg.POPULATION_SIZE
        /\ Len(next_generation) <= cfg.POPULATION_SIZE

\* a run that bred an odd number of free slots (2 - 1) twice and returned
C1_Witness ==
    /\ pc = "done"
    /\ cfg.POPULATION_SIZE = 2 /\ cfg.ELITISM_COUNT = 1
    /\ generations_run = 2 /\ hist.executed = 2
    /\ Len(population) = 2

C2_Bounds ==
    /\ generations_run <= cfg.MAX_GENERATIONS
    /\ cfg.MAX_STAGNANT_GENERATIONS > 0 =>
           generations_run - hist.at <= cfg.MAX_STAGNANT_GENERATIONS
    /\ pc \in {"loop", "done"} => generations_run = hist.executed

\* What is left of run, as a natural number: the generations not yet entered, and
\* within one the slots of next_generation not yet filled; 0 once run has ended.
Variant ==
    LET K    == Max(cfg.POPULATION_SIZE, 0) + 3
        left == cfg.MAX_GENERATIONS - generations_run
    IN  CASE pc = "start" -> (cfg.MAX_GENERATIONS + 1) * K + 1
          [] pc = "loop"  -> left * K + 1
          [] pc = "breed" -> left * K + 2 + Max(cfg.POPULATION_SIZE - Len(next_generation), 0)
          [] OTHER        -> 0

\* C2: run terminates (it returns, or an exception ends it): every step of run
\* strictly lowers Variant, a natural number that is 0 exactly when run has ended.
\* It never enters more than MAX_GENERATIONS generations; with
\* MAX_STAGNANT_GENERATIONS > 0 it never enters a generation more than
\* MAX_STAGNANT_GENERATIONS after the one in which the greatest fitness seen last
\* rose; and between generations and at return generations_run is the number of
\* generations executed.
C2_Termination ==
    /\ [][Variant' < Variant]_vars
    /\ [](C2_Bounds /\ Variant >= 0 /\ (Variant = 0 <=> Terminated))

\* a run that improved in generation 1, then stagnated and stopped early
C2_Witness ==
    /\ pc = "done"
    /\ hist.at = 1
    /\ cfg.MAX_STAGNANT_GENERATIONS = 2
    /\ generations_run = 3 /\ hist.executed = 3
    /\ cfg.MAX_GENERATIONS = 3

\* C3: with MAX_STAGNANT_GENERATIONS = 0 a run that returns has executed exactly
\* MAX_GENERATIONS generations.
C3_ZeroDisablesEarlyStop ==
    (pc = "done" /\ cfg.MAX_STAGNANT_GENERATIONS = 0) =>
        generations_run = cfg.MAX_GENERATIONS

\* C4: when a parent has to be selected from a population whose weights are all
\* 0, _roulette_selection returns a member, any member being possible, and run
\* is not ended by an exception there.
C4_ZeroWeightSelection ==
    (AllWeightsZero(population) /\ Len(next_generation) < cfg.POPULATION_SIZE
        /\ pc \in {"breed", "failed"}) =>
        /\ pc = "breed"
        /\ RouletteSelection(population)
             = Ok({ population[k] : k \in 1..Len(population) })

\* C5: from the first evaluation on, best_overall has the greatest fitness any
\* evaluated individual of the run has had and the genes of the earliest
\* individual that had it (a later one of equal fitness never replaces it), and
\* stagnant_generations counts the generations executed since the greatest fitness
\* last rose (0 on a strict improvement, one more otherwise); a run that returns
\* has such a best_overall.
C5_BestEver ==
    /\ pc = "done" => best_overall # NoIndividual
    /\ best_overall # NoIndividual =>
         /\ best_overall.fitness = hist.max
         /\ heap[best_overall.genes] = hist.genes
         /\ stagnant_generations = hist.executed - hist.at

\* a returned run whose final population holds an individual as fit as
\* best_overall with other genes, which did not replace it
C5_Witness ==
    /\ pc = "done"
    /\ hist.executed >= 1
    /\ hist.at = 0
    /\ best_overall.fitness = 1
    /\ \E k \in 1..Len(population) :
         /\ population[k].fitness = best_overall.fitness
         /\ heap[population[k].genes] # heap[best_overall.genes]

ElitesCarried(old_pop, old_heap, new_pop, new_heap, c) ==
    \A k \in 1..c.ELITISM_COUNT :
        /\ new_heap[new_pop[k].genes] = old_heap[Ranked(old_pop, k).genes]
        /\ new_pop[k].fitness = Ranked(old_pop, k).fitness

\* C6: whenever a generation N+1 replaces a generation N of at least
\* ELITISM_COUNT members, its first ELITISM_COUNT members have the genes and the
\* fitness of the ELITISM_COUNT fittest members of generation N, equal fitness
\* ranked in population order.
C6_Elitism ==
    [][ (pc = "breed" /\ pc' \in {"loop", "done"}
           /\ cfg.ELITISM_COUNT <= Len(population))
        => ElitesCarried(population, heap, population', heap', cfg) ]_vars

\* the elite of a population whose two members tie with different genes has
\* been cloned and the generation is complete
C6_Witness ==
    /\ pc = "breed"
    /\ cfg.ELITISM_COUNT = 1 /\ cfg.POPULATION_SIZE = 2
    /\ Len(next_generation) = 2
    /\ population[1].fitness = 1 /\ population[2].fitness = 1
    /\ heap[population[1].genes] # heap[population[2].genes]
    /\ heap[next_generation[1].genes] = heap[population[1].genes]

Buffers(inds) == { inds[k].genes : k \in 1..Len(inds) }

C8_MalformedConfigRejected ==
    ~ValidConfig(cfg) => (pc \in {"start", "failed"} /\ generations_run = 0)

\* C9: a call of decode or calculate_fitness with a gene sequence whose length is
\* not chromosome_length raises.
C9_WrongLengthRaises ==
    (pc # "idle" /\ Len(call.genes) # ChromosomeLength(problem)) => pc = "raised"

\* value of the b genes after position from, first gene most significant
RECURSIVE BitValue(_, _, _)
BitValue(genes, from, b) ==
    IF b = 0 THEN 0 ELSE genes[from + b] + 2 * BitValue(genes, from, b - 1)

ExpectedPair(p, genes, i) ==
    << Min(BitValue(genes, 2 * (i - 1) * p.bits_per_coord, p.bits_per_coord), p.map_width),
       Min(BitValue(genes, (2 * (i - 1) + 1) * p.bits_per_coord, p.bits_per_coord),
           p.map_height) >>

\* C10: decode of a bit sequence of length chromosome_length (bits_per_coord >= 1)
\* returns num_antennas pairs, pair i being (min(X_i, map_width),
\* min(Y_i, map_height)) for the most-significant-bit-first values X_i, Y_i of
\* its two groups of bits_per_coord bits; the coordinates lie in
\* [0, map_width] x [0, map_height]; all zeros give (0,0) everywhere and all
\* ones (min(2^b - 1, map_width), min(2^b - 1, map_height)).
C10_Decode ==
    (call.op = "decode" /\ Len(call.genes) = ChromosomeLength(problem)
        /\ problem.bits_per_coord >= 1) =>
        /\ pc = "returned"
        /\ Len(result.val) = problem.num_antennas
        /\ \A i \in 1..problem.num_antennas :
             /\ result.val[i] = ExpectedPair(problem, call.genes, i)
             /\ result.val[i][1] \in 0..problem.map_width
             /\ result.val[i][2] \in 0..problem.map_height
             /\ (\A k \in 1..Len(call.genes) : call.genes[k] = 0)
                    => result.val[i] = << 0, 0 >>
             /\ (\A k \in 1..Len(call.genes) : call.genes[k] = 1)
                    => result.val[i] = << Min(2 ^ problem.bits_per_coord - 1, problem.map_width),
                                          Min(2 ^ problem.bits_per_coord - 1, problem.map_height) >>

\* decode of 1 1 0 1 on a 2 x 2 map with two bits per coordinate: X = 3 is cut
\* down to 2, Y = 1
C10_Witness ==
    /\ pc = "returned"
    /\ call = [op |-> "decode", genes |-> << 1, 1, 0, 1 >>]
    /\ problem.num_antennas = 1 /\ problem.bits_per_coord = 2
    /\ problem.map_width = 2 /\ problem.map_height = 2
    /\ result.val = << << 2, 1 >> >>

\* client record k of p lies within the radius of at least one of the antennas
ClientCovered(p, antennas, k) ==
    \E a \in 1..Len(antennas) :
        LET dx == p.clients[k][1] - antennas[a][1]
            dy == p.clients[k][2] - antennas[a][2]
        IN  dx * dx + dy * dy <= p.coverage_radius * p.coverage_radius

\* number of client records among the first k that are covered
RECURSIVE CountCovered(_, _, _)
CountCovered(p, antennas, k) ==
    IF k = 0 THEN 0
    ELSE CountCovered(p, antennas, k - 1) + (IF ClientCovered(p, antennas, k) THEN 1 ELSE 0)

\* a problem whose chromosomes of length chromosome_length decode: it has no
\* antenna, or every coordinate has at least one bit
Decodable(p) == p.num_antennas = 0 \/ p.bits_per_coord >= 1

\* C11: calculate_fitness of a bit sequence of length chromosome_length returns
\* the number of client records that have at least one antenna of decode with
\* dx^2 + dy^2 <= coverage_radius^2: each record counts at most once however many
\* antennas cover it, a record at distance exactly coverage_radius counts, and
\* the value is 0 when there are no clients or no antennas.
C11_Fitness ==
    (call.op = "calculate_fitness" /\ Len(call.genes) = ChromosomeLength(problem)
        /\ Decodable(problem)) =>
        /\ pc = "returned"
        /\ result.val = CountCovered(problem, Decode(problem, call.genes).val,
                                     Len(problem.clients))
        /\ result.val \in 0..Len(problem.clients)
        /\ (Len(problem.clients) = 0 \/ problem.num_antennas = 0) => result.val = 0

\* antennas at (0,0) and (0,1), radius 2: both cover the two records at (0,0),
\* the second also reaches (2,1) and (0,3), each at distance exactly 2; every
\* record counts once, so the fitness is 4
C11_Witness ==
    /\ pc = "returned"
    /\ call = [op |-> "calculate_fitness", genes |-> << 0, 0, 0, 1 >>]
    /\ problem.num_antennas = 2 /\ problem.bits_per_coord = 1
    /\ problem.coverage_radius = 2
    /\ problem.clients = << Point(0, 0), Point(2, 1), Point(0, 0), Point(0, 3) >>
    /\ result.val = 4

\* gene k (1-based) lies in the exchanged segment: its 0-based index k - 1 is in
\* [p1, p2)
Exchanged(cut, k) == cut[1] < k /\ k <= cut[2]

\* C12: _crossover of two parents of equal length L returns two new lists of
\* length L (neither is a parent list, nor the other child).  If L < 3 they are
\* copies of the parents.  If L >= 3 the cut points drawn satisfy
\* 1 <= p1 < p2 <= L - 1, child A has parent A's genes outside [p1, p2) and
\* parent B's inside it, child B the complement.  At every index the pair of
\* child genes is the pair of parent genes or its swap.
C12_Crossover ==
    pc = "crossed" =>
        LET parent_a == heap[call.parent_a]
            parent_b == heap[call.parent_b]
            L        == Len(parent_a)
            child_a  == heap[result.val[1]]
            child_b  == heap[result.val[2]]
        IN  /\ result.val[1] \notin {call.parent_a, call.parent_b, result.val[2]}
            /\ result.val[2] \notin {call.parent_a, call.parent_b}
            /\ Len(child_a) = L /\ Len(child_b) = L
            /\ L < 3 => (child_a = parent_a /\ child_b = parent_b)
            /\ L >= 3 =>
                 /\ 1 <= call.cut[1] /\ call.cut[1] < call.cut[2] /\ call.cut[2] <= L - 1
                 /\ \A k \in 1..L :
                      /\ child_a[k] = (IF Exchanged(call.cut, k) THEN parent_b[k] ELSE parent_a[k])
                      /\ child_b[k] = (IF Exchanged(call.cut, k) THEN parent_a[k] ELSE parent_b[k])
            /\ \A k \in 1..L :
                 << child_a[k], child_b[k] >> \in { << parent_a[k], parent_b[k] >>,
                                                    << parent_b[k], parent_a[k] >> }

\* 1 1 1 1 1 crossed with 0 0 0 0 0 at the cut points 1 and 3
C12_Witness ==
    /\ pc = "crossed"
    /\ heap[call.parent_a] = << 1, 1, 1, 1, 1 >>
    /\ heap[call.parent_b] = << 0, 0, 0, 0, 0 >>
    /\ call.cut = << 1, 3 >>
    /\ heap[result.val[1]] = << 1, 0, 0, 1, 1 >>
    /\ heap[result.val[2]] = << 0, 1, 1, 0, 0 >>

\* the fitness held by ind is calculate_fitness of the genes its list holds in h
FitnessCurrent(ind, h) == Ok(ind.fitness) = CalculateFitness(problem, h[ind.genes])

\* the individuals that have been evaluated: best_overall, the population, and
\* the elite clones in the generation being built
Evaluated(best, pop, nxt) ==
    { best } \cup { pop[k] : k \in 1..Len(pop) }
             \cup { nxt[k] : k \in { j \in 1..Len(nxt) : nxt[j].fitness # -1 } }

C13_FitnessCurrent ==
    pc \in {"loop", "breed", "done"} =>
        \A ind \in Evaluated(best_overall, population, next_generation) :
            FitnessCurrent(ind, heap)

\* a step inside a generation leaves the genes and the fitness of best_overall,
\* of every member of the population and of every elite clone as they were
BreedKeepsEvaluated ==
    (pc \in {"loop", "breed"} /\ pc' = "breed") =>
        /\ best_overall'.fitness = best_overall.fitness
        /\ heap'[best_overall'.genes] = heap[best_overall.genes]
        /\ Len(population') = Len(population)
        /\ \A k \in 1..Len(population) :
             /\ population'[k].fitness = population[k].fitness
             /\ heap'[population'[k].genes] = heap[population[k].genes]
        /\ \A k \in 1..Len(next_generation) :
             next_generation[k].fitness # -1 =>
                 /\ next_generation'[k].fitness = next_generation[k].fitness
                 /\ heap'[next_generation'[k].genes] = heap[next_generation[k].genes]

\* the step that ends a generation evaluates the genes as breeding left them,
\* and best_overall keeps its genes or takes those of a member just evaluated
EvaluationKeepsGenes ==
    (pc = "breed" /\ pc' \in {"loop", "done"}) =>
        /\ \A k \in 1..Len(population') :
             heap'[population'[k].genes] = heap[next_generation[k].genes]
        /\ \/ /\ best_overall'.fitness = best_overall.fitness
              /\ heap'[best_overall'.genes] = heap[best_overall.genes]
           \/ \E k \in 1..Len(population') :
                /\ best_overall'.fitness = population'[k].fitness
                /\ heap'[best_overall'.genes] = heap'[population'[k].genes]

\* C13: once the population has been evaluated, between generations, inside a
\* generation and at return, best_overall and every member of the population
\* (and every elite clone) hold the fitness calculate_fitness gives for their
\* current genes; no step of run changes the genes of an individual that has been
\* evaluated: _crossover and _mutate write only to the lists of new children.
C13_FitnessMatchesGenes ==
    /\ []C13_FitnessCurrent
    /\ [][BreedKeepsEvaluated /\ EvaluationKeepsGenes]_vars

\* a returned run of two generations with mutation on: the best was found by a
\* child of generation 1, the elite of generation 2 still holds the list of
\* best_overall, and the child bred beside it was mutated to other genes
C13_Witness ==
    /\ pc = "done"
    /\ cfg.POPULATION_SIZE = 2 /\ cfg.ELITISM_COUNT = 1 /\ cfg.MUTATION_RATE = 1
    /\ hist.at = 1 /\ hist.executed = 2
    /\ best_overall.fitness = 2
    /\ population[1].genes = best_overall.genes
    /\ heap[population[2].genes] # heap[best_overall.genes]
    /\ population[2].fitness < 2

====
